---- MODULE Spec2Model ----
(***************************************************************************)
(* Model of the HTML -> Markdown mapping engine (MappingService), its      *)
(* ConverterService wrapper and the /convert controller.                   *)
(*                                                                         *)
(* A text is a sequence of one-character strings.  The HTML parser and the *)
(* Markdown renderer are external: an html_text is modelled by what they   *)
(* return for it (the top-level children of the parsed tree, the rendering *)
(* of the whole tree, the rendering of every child) and by the exception,  *)
(* if any, they raise while it is processed.                               *)
(***************************************************************************)
EXTENDS Integers, Sequences, FiniteSets, TLC

VARIABLES mappings, result, found, response, calls, th, shared

vars == <<mappings, result, found, response, calls, th, shared>>

(***************************************************************************)
(* Bounds of the model.                                                    *)
(***************************************************************************)
MaxRawLen == 3
MaxChildren == 2
MaxCalls == 3
MaxLineNumber == 5

(***************************************************************************)
(* Characters and Python string primitives.                                *)
(***************************************************************************)
NL == "\n"
Chars == {"a", "b", " ", NL}
Whitespace == {" ", NL}

\* All texts over alphabet cs of length at most n.
TextsUpTo(cs, n) == UNION {[1..k -> cs] : k \in 0..n}

RECURSIVE lstrip(_)
lstrip(s) ==
    IF s # <<>> /\ Head(s) \in Whitespace THEN lstrip(Tail(s)) ELSE s

RECURSIVE rstrip(_)
rstrip(s) ==
    IF s # <<>> /\ s[Len(s)] \in Whitespace
    THEN rstrip(SubSeq(s, 1, Len(s) - 1))
    ELSE s

\* str.strip()
strip(s) == rstrip(lstrip(s))

\* str.split('\n'): a text without separator is one line, "" gives [""].
RECURSIVE split(_)
split(s) ==
    IF \A k \in 1..Len(s) : s[k] # NL
    THEN <<s>>
    ELSE LET k == CHOOSE k \in 1..Len(s) :
                      s[k] = NL /\ \A m \in 1..(k - 1) : s[m] # NL
         IN  <<SubSeq(s, 1, k - 1)>> \o split(SubSeq(s, k + 1, Len(s)))

\* '\n'.join(lines)
RECURSIVE join(_)
join(lines) ==
    IF lines = <<>> THEN <<>>
    ELSE IF Len(lines) = 1 THEN lines[1]
    ELSE lines[1] \o <<NL>> \o join(Tail(lines))

Digit(d) == CASE d = 0 -> "0" [] d = 1 -> "1" [] d = 2 -> "2" [] d = 3 -> "3"
              [] d = 4 -> "4" [] d = 5 -> "5" [] d = 6 -> "6" [] d = 7 -> "7"
              [] d = 8 -> "8" [] d = 9 -> "9"

\* Decimal digits of a natural number.
RECURSIVE Decimal(_)
Decimal(n) == IF n < 10 THEN <<Digit(n)>>
              ELSE Decimal(n \div 10) \o <<Digit(n % 10)>>

RECURSIVE ZeroPad(_, _)
ZeroPad(s, width) == IF Len(s) >= width THEN s ELSE ZeroPad(<<"0">> \o s, width)

\* Mutant: the number padded to two digits.
line_number_2d(i) == <<"[">> \o ZeroPad(Decimal(i), 2) \o <<"]">>

\* f"[{i:03d}]"
line_number(i) == <<"[">> \o ZeroPad(Decimal(i), 3) \o <<"]">>

\* f"{line_number} {line}"
numbered_line(i, line) == line_number(i) \o <<" ">> \o line

\* MappingService._add_line_numbers
_add_line_numbers(markdown_text) ==
    LET lines == split(markdown_text)
        numbered_lines == [i \in 1..Len(lines) |-> numbered_line(i, lines[i])]
    IN  join(numbered_lines)

(***************************************************************************)
(* MappingService._find_content_lines.  Indices are 0-based as in the      *)
(* code; markdown_lines[i] of the code is markdown_lines[i + 1] here.      *)
(***************************************************************************)
\* Mutant: the lines compared as they are, untrimmed.
RECURSIVE content_matches_exact(_, _, _, _)
content_matches_exact(markdown_lines, content_lines, i, j) ==
    IF j >= Len(content_lines) THEN TRUE
    ELSE IF i + j >= Len(markdown_lines)
            \/ markdown_lines[i + j + 1] # content_lines[j + 1]
         THEN FALSE
         ELSE content_matches_exact(markdown_lines, content_lines, i, j + 1)

\* The inner loop over content_lines, from position j on.
RECURSIVE content_matches(_, _, _, _)
content_matches(markdown_lines, content_lines, i, j) ==
    IF j >= Len(content_lines) THEN TRUE
    ELSE IF i + j >= Len(markdown_lines)
            \/ strip(markdown_lines[i + j + 1]) # strip(content_lines[j + 1])
         THEN FALSE
         ELSE content_matches(markdown_lines, content_lines, i, j + 1)

\* The outer loop, for i in range(i, len(markdown_lines)).
RECURSIVE find_from(_, _, _)
find_from(markdown_lines, content_lines, i) ==
    IF i >= Len(markdown_lines) THEN <<-1, -1>>
    ELSE IF content_matches(markdown_lines, content_lines, i, 0)
         THEN <<i, i + Len(content_lines) - 1>>
         ELSE find_from(markdown_lines, content_lines, i + 1)

\* Mutant: the search ignores start_from.
_find_content_lines_from_0(markdown_lines, content, start_from) ==
    find_from(markdown_lines, split(content), 0)

_find_content_lines(markdown_lines, content, start_from) ==
    find_from(markdown_lines, split(content), start_from)

(***************************************************************************)
(* The parsed tree.  A child of the root is a Tag, a NavigableString or a  *)
(* Comment; `md` is what md(str(element)) returns for it.  An html_text is *)
(*   [length, children, raw, fault]                                        *)
(* with raw = md(str(soup)) and fault = the exception raised while it is   *)
(* processed ([stage |-> "none"] when there is none).                      *)
(***************************************************************************)
\* None, and the empty dictionary {}.
None == <<>>
EmptyDict == [key \in {} |-> None]

uuid4(seed, k) == <<seed, k>>

\* Mutant: every child counts as a Tag.
isinstance_any(element) == element.kind \in {"Tag", "NavigableString", "Comment"}

isinstance_Tag(element) == element.kind = "Tag"

\* MappingService._add_unique_ids: only Tag children get the attribute.
_add_unique_ids(children, seed) ==
    [k \in 1..Len(children) |->
        IF isinstance_Tag(children[k])
        THEN [kind |-> children[k].kind, name |-> children[k].name,
              md |-> children[k].md, id |-> uuid4(seed, k)]
        ELSE [kind |-> children[k].kind, name |-> children[k].name,
              md |-> children[k].md, id |-> None]]

\* str(element): the serialisation, kept as the tag with its attribute.
str_element(element) == [tag |-> element.name, data_mapping_id |-> element.id]

\* str(soup)
str_soup(soup) == [k \in 1..Len(soup) |-> str_element(soup[k])]

\* The dataclass HtmlToMarkdownMapping.
HtmlToMarkdownMapping(id, content, tag, line_start, line_end, markdown) ==
    [html_element_id |-> id, html_content |-> content, html_tag |-> tag,
     markdown_line_start |-> line_start, markdown_line_end |-> line_end,
     markdown_content |-> markdown]

\* MappingService._mapping_to_dict
_mapping_to_dict(mapping) ==
    [html_element_id |-> mapping.html_element_id,
     html_tag |-> mapping.html_tag,
     html_content |-> mapping.html_content,
     markdown_line_start |-> mapping.markdown_line_start,
     markdown_line_end |-> mapping.markdown_line_end,
     markdown_content |-> mapping.markdown_content]

\* Does processing child k raise (per-element rendering or line matching)?
element_raises(fault, element, k) ==
    /\ isinstance_Tag(element) /\ element.id # None
    /\ fault.index = k
    /\ \/ fault.stage = "element"
       \/ fault.stage = "match" /\ strip(element.md) # <<>>

(***************************************************************************)
(* One iteration of the loop of MappingService._create_mapping, on the     *)
(* stored list self_mappings and the cursor current_line.                  *)
(***************************************************************************)
create_mapping_iteration(self_mappings, markdown_lines, current_line, element) ==
    LET unchanged == [mappings |-> self_mappings, current_line |-> current_line]
    IN
    IF isinstance_Tag(element) /\ element.id # None
    THEN LET element_markdown == strip(element.md)
         IN  IF element_markdown # <<>>
             THEN LET range == _find_content_lines(markdown_lines,
                                                   element_markdown, current_line)
                      line_start == range[1]
                      line_end == range[2]
                  IN  IF line_start # -1
                      THEN [mappings |-> Append(self_mappings,
                                HtmlToMarkdownMapping(element.id,
                                    str_element(element), element.name,
                                    line_start + 1, line_end + 1,
                                    element_markdown)),
                            current_line |-> line_end]
                      ELSE unchanged
             ELSE unchanged
    ELSE unchanged

\* The loop from child k on; raised tells that an exception left the loop.
RECURSIVE create_mapping_loop(_, _, _, _, _, _)
create_mapping_loop(self_mappings, markdown_lines, current_line, soup, fault, k) ==
    IF k > Len(soup)
    THEN [mappings |-> self_mappings, raised |-> FALSE]
    ELSE IF element_raises(fault, soup[k], k)
         THEN [mappings |-> self_mappings, raised |-> TRUE]
         ELSE LET it == create_mapping_iteration(self_mappings, markdown_lines,
                                                 current_line, soup[k])
              IN  create_mapping_loop(it.mappings, markdown_lines,
                                      it.current_line, soup, fault, k + 1)

\* MappingService._create_mapping: self.mappings = [] and the loop.
_create_mapping(soup, markdown_text, fault) ==
    create_mapping_loop(<<>>, split(markdown_text), 0, soup, fault, 1)

\* The dictionary returned on success.
converted_result(html_text, numbered_markdown, soup, self_mappings) ==
    [original_html_length |-> html_text.length,
     markdown_result |-> strip(numbered_markdown),
     html_with_ids |-> str_soup(soup),
     mappings |-> [k \in 1..Len(self_mappings) |-> _mapping_to_dict(self_mappings[k])],
     status |-> "converted"]

\* The dictionary returned by the except branch.
error_result(html_text, e) ==
    [original_html_length |-> html_text.length,
     markdown_result |-> <<>>,
     mappings |-> <<>>,
     status |-> "error",
     error |-> e.msg]

\* Exceptions raised before _create_mapping starts.
raises_before_mapping(fault) == fault.stage \in {"parse", "ids", "render"}

(***************************************************************************)
(* MappingService.convert_with_mapping as one call: the new value of       *)
(* self.mappings and the returned dictionary.                              *)
(***************************************************************************)
convert_with_mapping(self_mappings, html_text, seed) ==
    IF raises_before_mapping(html_text.fault)
    THEN [mappings |-> self_mappings,
          result |-> error_result(html_text, html_text.fault)]
    ELSE LET soup == _add_unique_ids(html_text.children, seed)
             markdown_result == html_text.raw
             cm == _create_mapping(soup, markdown_result, html_text.fault)
         IN  IF cm.raised
             THEN [mappings |-> cm.mappings,
                   result |-> error_result(html_text, html_text.fault)]
             ELSE [mappings |-> cm.mappings,
                   result |-> converted_result(html_text,
                                  _add_line_numbers(markdown_result), soup,
                                  cm.mappings)]

\* Mutant: the end of the range excluded.
RECURSIVE find_html_from_exclusive(_, _, _)
find_html_from_exclusive(self_mappings, line_number_arg, k) ==
    IF k > Len(self_mappings) THEN EmptyDict
    ELSE IF self_mappings[k].markdown_line_start <= line_number_arg
            /\ line_number_arg < self_mappings[k].markdown_line_end
         THEN _mapping_to_dict(self_mappings[k])
         ELSE find_html_from_exclusive(self_mappings, line_number_arg, k + 1)

\* MappingService.find_html_by_line: the scan from position k on.
RECURSIVE find_html_from(_, _, _)
find_html_from(self_mappings, line_number_arg, k) ==
    IF k > Len(self_mappings) THEN EmptyDict
    ELSE IF self_mappings[k].markdown_line_start <= line_number_arg
            /\ line_number_arg <= self_mappings[k].markdown_line_end
         THEN _mapping_to_dict(self_mappings[k])
         ELSE find_html_from(self_mappings, line_number_arg, k + 1)

\* MappingService.find_html_by_line; ConverterService.find_html_by_line
\* returns its value unchanged.
find_html_by_line(self_mappings, line_number_arg) ==
    find_html_from(self_mappings, line_number_arg, 1)

(***************************************************************************)
(* The controller: POST /convert.  Every request builds its own            *)
(* ConverterService, hence its own MappingService with mappings = [].      *)
(***************************************************************************)
SuccessMessage == "HTML converted successfully"
NoTextDetail == "HTML text not provided"
ConversionErrorDetail == "Conversion error: "

\* Does building the JSONResponse raise (a body that cannot be encoded)?
\* The body of an error result holds no text of the input.
response_raises(html_text, res) ==
    html_text.fault.stage = "respond" /\ res.status = "converted"

\* convert_html: the answer, and whether the core was called.  An exception
\* raised inside the try is answered with 500.
convert_html(html_text, seed) ==
    IF html_text.length = 0
    THEN [answer |-> [status_code |-> 400, detail |-> NoTextDetail],
          core_calls |-> 0]
    ELSE LET res == convert_with_mapping(<<>>, html_text, seed).result
         IN  IF response_raises(html_text, res)
             THEN [answer |-> [status_code |-> 500,
                               detail |-> <<ConversionErrorDetail,
                                            html_text.fault.msg>>],
                   core_calls |-> 1]
             ELSE [answer |->
                     [status_code |-> 200,
                      message |-> SuccessMessage,
                      markdown |-> res.markdown_result,
                      html_with_ids |-> IF "html_with_ids" \in DOMAIN res
                                        THEN res.html_with_ids ELSE <<>>,
                      mappings |-> res.mappings,
                      original_html_length |-> res.original_html_length,
                      status |-> IF "status" \in DOMAIN res
                                 THEN res.status ELSE "converted"],
                   core_calls |-> 1]

(***************************************************************************)
(* Inputs.                                                                 *)
(***************************************************************************)
Tag(name, markdown) == [kind |-> "Tag", name |-> name, md |-> markdown]
\* A text child renders to its text, a comment to nothing.
NavigableString == [kind |-> "NavigableString", name |-> None, md |-> <<"b">>]
Comment == [kind |-> "Comment", name |-> None, md |-> <<>>]

NoFault == [stage |-> "none", index |-> 0, msg |-> ""]
Fault(stage, index, msg) == [stage |-> stage, index |-> index, msg |-> msg]
RecursionMsg == "maximum recursion depth exceeded"

Html(length, children, raw, fault) ==
    [length |-> length, children |-> children, raw |-> raw, fault |-> fault]

\* The empty string: nothing to parse, nothing rendered.
EmptyHtml == Html(0, <<>>, <<>>, NoFault)

\* <h1>a</h1><p>b</p>
TwoBlocks == <<Tag("h1", <<"#", " ", "a">>), Tag("p", <<"b">>)>>
TwoBlocksRaw == <<"#", " ", "a", NL, NL, "b">>
\* <p>a</p><p>a</p>
TwoSame == <<Tag("p", <<"a">>), Tag("p", <<"a">>)>>
TwoSameRaw == <<"a", NL, NL, "a">>

EncodeMsg == "'utf-8' codec can't encode character: surrogates not allowed"

HtmlTexts ==
    { Html(18, TwoBlocks, TwoBlocksRaw, NoFault),
      Html(16, TwoSame, TwoSameRaw, NoFault),
      \* <p>a<br>b</p>
      Html(13, <<Tag("p", <<"a", " ", " ", NL, "b">>)>>,
           <<"a", " ", " ", NL, "b">>, NoFault),
      \* b<!-- c --><p>a</p>
      Html(19, <<NavigableString, Comment, Tag("p", <<"a">>)>>,
           <<"b", NL, NL, "a">>, NoFault),
      \* <p></p><p>b</p><p>a</p>
      Html(23, <<Tag("p", <<>>), Tag("p", <<"b">>), Tag("p", <<"a">>)>>,
           <<"b", NL, NL, "a">>, NoFault),
      \* <!-- c -->
      Html(10, <<Comment>>, <<>>, NoFault),
      \* <p>?</p>, ? a lone surrogate, which no JSON body can hold
      Html(8, <<Tag("p", <<"?">>)>>, <<"?">>, Fault("respond", 0, EncodeMsg)),
      Html(18, TwoBlocks, TwoBlocksRaw, Fault("parse", 0, RecursionMsg)),
      Html(18, TwoBlocks, TwoBlocksRaw, Fault("ids", 0, RecursionMsg)),
      Html(16, TwoSame, TwoSameRaw, Fault("render", 0, RecursionMsg)),
      \* an exception without arguments, such as MemoryError(): str(e) = ""
      Html(16, TwoSame, TwoSameRaw, Fault("render", 0, "")),
      Html(18, TwoBlocks, TwoBlocksRaw, Fault("element", 2, RecursionMsg)),
      Html(18, TwoBlocks, TwoBlocksRaw, Fault("match", 2, "")) }

\* What md(str(element)) returns for the elements of the generated inputs.
ElementMarkdowns ==
    { <<"a">>, <<"b">>, <<NL, "a", NL>>, <<"a", NL, "b">>,
      <<"a", " ", NL, " ", "b">>, <<>> }

Nodes == {Tag("p", m) : m \in ElementMarkdowns} \cup {NavigableString, Comment}

ChildLists == UNION {[1..n -> Nodes] : n \in 0..MaxChildren}

\* md is a function of the html it is given: a tree of one child is
\* rendered as that child is, a tree without children to nothing.
RenderedTogether(children, raw) ==
    /\ children = <<>> => raw = <<>>
    /\ Len(children) = 1 => raw = children[1].md

\* len() of the html of one child: the text b, the comment <!-- c -->, and
\* for a Tag its content between <p> and </p>.
html_len(element) ==
    CASE element.kind = "NavigableString" -> Len(element.md)
      [] element.kind = "Comment" -> 10
      [] element.kind = "Tag" -> 3 + Len(strip(element.md)) + 4

\* len(html_text) of the text made of these children.
RECURSIVE html_text_len(_)
html_text_len(children) ==
    IF children = <<>> THEN 0
    ELSE html_len(Head(children)) + html_text_len(Tail(children))

\* The parser makes one NavigableString of adjacent text.
Parsed(children) ==
    \A k \in 1..(Len(children) - 1) :
        ~(children[k].kind = "NavigableString"
          /\ children[k + 1].kind = "NavigableString")

\* The input with these children and this rendering of the whole tree.
GeneratedHtml(children, raw) ==
    Html(html_text_len(children), children, raw, NoFault)

(***************************************************************************)
(* State.  mappings[e] is self.mappings of engine e.  result is the last   *)
(* call of convert_with_mapping on engine 1 with its returned dictionary,  *)
(* found the call of find_html_by_line when it is the last operation on    *)
(* that engine, response the last request to the controller with its       *)
(* answer, calls the number of conversions run, th[t] a call in progress.  *)
(***************************************************************************)
Engines == {1, 2}
Threads == {1, 2}

Idle == [pc |-> "idle", html_text |-> EmptyHtml, seed |-> 0, soup |-> <<>>,
         markdown_result |-> <<>>, markdown_lines |-> <<>>, k |-> 0,
         current_line |-> 0, result |-> None]

Started(html_text, seed) == [Idle EXCEPT !.pc = "render",
                                         !.html_text = html_text,
                                         !.seed = seed]

\* Mutant: every call runs on the same engine.
engine_of_single(t) == 1

\* The engine a call runs on: one per call, or the one shared instance.
engine_of(t) == IF shared THEN 1 ELSE t

Init ==
    /\ mappings = [e \in Engines |-> <<>>]
    /\ result = None
    /\ found = None
    /\ response = None
    /\ calls = 0
    /\ th = [t \in Threads |-> Idle]
    /\ shared = FALSE

(***************************************************************************)
(* Operations on one engine, one call at a time.                           *)
(***************************************************************************)
ConvertWithMapping(html_text) ==
    /\ calls < MaxCalls
    /\ LET r == convert_with_mapping(mappings[1], html_text, calls + 1)
       IN  /\ mappings' = [mappings EXCEPT ![1] = r.mappings]
           /\ result' = [html_text |-> html_text, value |-> r.result]
    /\ calls' = calls + 1
    /\ found' = None
    /\ UNCHANGED <<response, th, shared>>

FindHtmlByLine(line_number_arg) ==
    /\ found' = [line_number |-> line_number_arg,
                 value |-> find_html_by_line(mappings[1], line_number_arg)]
    /\ UNCHANGED <<mappings, result, response, calls, th, shared>>

ConvertHtml(html_text) ==
    /\ calls < MaxCalls
    /\ LET r == convert_html(html_text, calls + 1)
       IN  /\ response' = [request |-> html_text, answer |-> r.answer,
                           core_calls |-> r.core_calls]
           /\ calls' = calls + r.core_calls
    /\ UNCHANGED <<mappings, result, found, th, shared>>

(***************************************************************************)
(* convert_with_mapping step by step, as thread t runs it: the statements  *)
(* up to the rendering of the whole tree, the reset of self.mappings, one  *)
(* iteration of the loop per step, and the return.                         *)
(***************************************************************************)
Render(t) ==
    /\ th[t].pc = "render"
    /\ IF raises_before_mapping(th[t].html_text.fault)
       THEN th' = [th EXCEPT ![t].pc = "done",
                             ![t].result = error_result(th[t].html_text,
                                                        th[t].html_text.fault)]
       ELSE th' = [th EXCEPT ![t].pc = "mapping",
                             ![t].soup = _add_unique_ids(th[t].html_text.children,
                                                         th[t].seed),
                             ![t].markdown_result = th[t].html_text.raw]
    /\ UNCHANGED <<mappings, result, found, response, calls, shared>>

BeginMapping(t) ==
    /\ th[t].pc = "mapping"
    /\ mappings' = [mappings EXCEPT ![engine_of(t)] = <<>>]
    /\ th' = [th EXCEPT ![t].pc = "loop",
                        ![t].markdown_lines = split(th[t].markdown_result),
                        ![t].current_line = 0,
                        ![t].k = 1]
    /\ UNCHANGED <<result, found, response, calls, shared>>

MapElement(t) ==
    /\ th[t].pc = "loop"
    /\ th[t].k <= Len(th[t].soup)
    /\ IF element_raises(th[t].html_text.fault, th[t].soup[th[t].k], th[t].k)
       THEN /\ th' = [th EXCEPT ![t].pc = "done",
                                ![t].result = error_result(th[t].html_text,
                                                           th[t].html_text.fault)]
            /\ UNCHANGED mappings
       ELSE LET it == create_mapping_iteration(mappings[engine_of(t)],
                          th[t].markdown_lines, th[t].current_line,
                          th[t].soup[th[t].k])
            IN  /\ mappings' = [mappings EXCEPT ![engine_of(t)] = it.mappings]
                /\ th' = [th EXCEPT ![t].current_line = it.current_line,
                                    ![t].k = th[t].k + 1]
    /\ UNCHANGED <<result, found, response, calls, shared>>

Return(t) ==
    /\ th[t].pc = "loop"
    /\ th[t].k > Len(th[t].soup)
    /\ th' = [th EXCEPT ![t].pc = "done",
                        ![t].result = converted_result(th[t].html_text,
                                          _add_line_numbers(th[t].markdown_result),
                                          th[t].soup, mappings[engine_of(t)])]
    /\ UNCHANGED <<mappings, result, found, response, calls, shared>>

Next ==
    \/ \E html_text \in HtmlTexts \cup {EmptyHtml} : ConvertWithMapping(html_text)
    \/ \E n \in (-1)..MaxLineNumber : FindHtmlByLine(n)
    \/ \E html_text \in HtmlTexts \cup {EmptyHtml} : ConvertHtml(html_text)

Spec == Init /\ [][Next]_vars

(***************************************************************************)
(* One conversion of any generated input, step by step.                    *)
(***************************************************************************)
\* <p>a</p><p>b</p><p>a</p><p>b</p><p>a</p><p>b</p>: a rendering of eleven
\* lines, for two-digit line numbers.
SixBlocks == <<Tag("p", <<"a">>), Tag("p", <<"b">>), Tag("p", <<"a">>),
               Tag("p", <<"b">>), Tag("p", <<"a">>), Tag("p", <<"b">>)>>
LongRaw == <<"a", NL, NL, "b", NL, NL, "a", NL, NL, "b", NL, NL,
             "a", NL, NL, "b">>
LongHtml == {Html(48, SixBlocks, LongRaw, NoFault)}

InitMapping ==
    /\ mappings = [e \in Engines |-> <<>>]
    /\ result = None
    /\ found = None
    /\ response = None
    /\ calls = 0
    /\ shared = FALSE
    /\ \/ \E html_text \in LongHtml \cup HtmlTexts \cup {EmptyHtml} :
             th = [t \in Threads |-> IF t = 1 THEN Started(html_text, 1) ELSE Idle]
       \/ \E children \in ChildLists,
             raw \in TextsUpTo(Chars, MaxRawLen) \cup ElementMarkdowns :
             /\ Parsed(children)
             /\ RenderedTogether(children, raw)
             /\ th = [t \in Threads |->
                      IF t = 1 THEN Started(GeneratedHtml(children, raw), 1)
                      ELSE Idle]

NextMapping ==
    \/ Render(1)
    \/ BeginMapping(1)
    \/ MapElement(1)
    \/ Return(1)

SpecMapping == InitMapping /\ [][NextMapping]_vars

(***************************************************************************)
(* Two conversions running concurrently, on one shared engine or on one    *)
(* engine each.                                                            *)
(***************************************************************************)
InitShared ==
    /\ mappings = [e \in Engines |-> <<>>]
    /\ result = None
    /\ found = None
    /\ response = None
    /\ calls = 0
    /\ shared \in BOOLEAN
    /\ \E input \in [Threads -> HtmlTexts] :
          th = [t \in Threads |-> Started(input[t], t)]

NextShared ==
    \E t \in Threads :
        \/ Render(t)
        \/ BeginMapping(t)
        \/ MapElement(t)
        \/ Return(t)

SpecShared == InitShared /\ [][NextShared]_vars

(***************************************************************************)
(* Properties of the operations run one at a time (Spec).                  *)
(***************************************************************************)
\* C1, as claimed: the line ranges of two distinct returned records are
\* disjoint, the later record lying strictly after the earlier one.
C1_Disjoint ==
    (result # None /\ result.value.status = "converted") =>
        LET m == result.value.mappings
        IN  \A p, q \in 1..Len(m) :
                p < q => m[p].markdown_line_end < m[q].markdown_line_start

\* Does convert_with_mapping meet an exception on this input?
Fails(html_text) ==
    \/ raises_before_mapping(html_text.fault)
    \/ \E k \in 1..Len(html_text.children) :
          element_raises(html_text.fault,
                         _add_unique_ids(html_text.children, 0)[k], k)

C5_StoredIsLastReturned ==
    result # None => mappings[1] = result.value.mappings

\* C6: find_html_by_line returns the first stored record, in stored order,
\* whose range contains line_number, the empty dictionary when there is
\* none (so for line_number <= 0 and beyond the largest markdown_line_end),
\* and leaves the stored list as it was.
Containing(self_mappings, n) ==
    {k \in 1..Len(self_mappings) :
        /\ self_mappings[k].markdown_line_start <= n
        /\ n <= self_mappings[k].markdown_line_end}

C6_FirstContaining ==
    [][found' # None =>
        LET n == found'.line_number
            hits == Containing(mappings[1], n)
        IN  /\ mappings' = mappings
            /\ hits = {} => found'.value = EmptyDict
            /\ hits # {} =>
                 LET first == CHOOSE k \in hits : \A m \in hits : k <= m
                 IN  found'.value = mappings[1][first]
            /\ (n <= 0 \/ \A k \in 1..Len(mappings[1]) :
                              n > mappings[1][k].markdown_line_end)
                 => found'.value = EmptyDict]_vars

\* A lookup of a line that two stored records contain.
C6_Witness ==
    /\ found # None
    /\ found.value # EmptyDict
    /\ Cardinality(Containing(mappings[1], found.line_number)) >= 2

\* C8, as claimed: empty input never reaches the core, and a core result
\* with status "error" is not answered with the success response.
C8_ErrorNotSuccess ==
    response # None =>
        IF response.request.length = 0
        THEN response.core_calls = 0 /\ response.answer.status_code = 400
        ELSE Fails(response.request) =>
                /\ response.answer.status_code # 200
                /\ "message" \in DOMAIN response.answer
                      => response.answer.message # SuccessMessage

(***************************************************************************)
(* Properties of one conversion (SpecMapping).                             *)
(***************************************************************************)
\* Call t has returned a result with status "converted".
Converted(t) == th[t].pc = "done" /\ th[t].result.status = "converted"

\* C2: the returned records are non-decreasing in document order, in their
\* start lines and in their end lines.
C2_Monotonic ==
    Converted(1) =>
        LET m == th[1].result.mappings
        IN  \A p, q \in 1..Len(m) :
                p < q => /\ m[p].markdown_line_start <= m[q].markdown_line_start
                         /\ m[p].markdown_line_end <= m[q].markdown_line_end

\* Two records, of different lengths, the second found from the cursor on.
C2_Witness ==
    /\ Converted(1)
    /\ Len(th[1].result.mappings) = 2
    /\ th[1].result.mappings[1].markdown_line_end
          > th[1].result.mappings[1].markdown_line_start
    /\ th[1].result.mappings[2].markdown_line_start
          >= th[1].result.mappings[1].markdown_line_end

\* The number a string of decimal digits denotes (-1 if it is not one).
RECURSIVE DecimalValue(_)
DecimalValue(d) ==
    IF d = <<>> THEN 0
    ELSE LET last == d[Len(d)]
             rest == DecimalValue(SubSeq(d, 1, Len(d) - 1))
         IN  IF rest < 0 \/ \A v \in 0..9 : Digit(v) # last
             THEN -1
             ELSE 10 * rest + (CHOOSE v \in 0..9 : Digit(v) = last)

\* line = "[" k, zero-padded to three digits at least, "] " and raw_line.
IsNumbered(line, k, raw_line) ==
    \E w \in 3..4 :
        /\ Len(line) = w + 3 + Len(raw_line)
        /\ line[1] = "["
        /\ DecimalValue(SubSeq(line, 2, w + 1)) = k
        /\ w > 3 => line[2] # "0"
        /\ line[w + 2] = "]"
        /\ line[w + 3] = " "
        /\ SubSeq(line, w + 4, Len(line)) = raw_line

\* line is full without the whitespace it ends with.
IsRightTrimmed(line, full) ==
    /\ Len(line) <= Len(full)
    /\ line = SubSeq(full, 1, Len(line))
    /\ \A k \in (Len(line) + 1)..Len(full) : full[k] \in Whitespace
    /\ line # <<>> => line[Len(line)] \notin Whitespace

\* C3, as claimed: markdown_result has the lines of the rendering, each one,
\* the last included, in the format "[%03d] %s".
C3_EveryLineNumbered ==
    Converted(1) =>
        LET raw_lines == split(th[1].html_text.raw)
            lines == split(th[1].result.markdown_result)
        IN  /\ Len(lines) = Len(raw_lines)
            /\ \A k \in 1..Len(raw_lines) : IsNumbered(lines[k], k, raw_lines[k])

\* C3, amended: markdown_result has as many lines as the rendering; every
\* line but the last is in the format "[%03d] %s", and the last line is that
\* format without the whitespace it ends with (the numbered text is
\* stripped as a whole).
C3_NumberedThenStripped ==
    Converted(1) =>
        LET raw_lines == split(th[1].html_text.raw)
            lines == split(th[1].result.markdown_result)
            n == Len(raw_lines)
        IN  /\ Len(lines) = n
            /\ \A k \in 1..(n - 1) : IsNumbered(lines[k], k, raw_lines[k])
            /\ \E full \in {lines[n] \o ws : ws \in TextsUpTo({" "}, MaxRawLen + 1)} :
                  /\ IsNumbered(full, n, raw_lines[n])
                  /\ IsRightTrimmed(lines[n], full)

\* A rendering of several lines whose last line ends with a blank.
C3_Witness ==
    /\ Converted(1)
    /\ Len(split(th[1].html_text.raw)) >= 3
    /\ th[1].html_text.raw[Len(th[1].html_text.raw)] = " "

\* C7: a conversion that meets no exception returns status "converted", and
\* its records belong to distinct Tag children of the root, in document
\* order: there are at most as many records as Tag children, and none for a
\* text or a comment.
TagChildren(html_text) ==
    {k \in 1..Len(html_text.children) : html_text.children[k].kind = "Tag"}

\* The child that record r was made from (0 when there is none).
ChildOf(t, r) ==
    IF \E k \in 1..Len(th[t].soup) : th[t].soup[k].id = r.html_element_id
    THEN CHOOSE k \in 1..Len(th[t].soup) : th[t].soup[k].id = r.html_element_id
    ELSE 0

C7_OnePerTag ==
    (th[1].pc = "done" /\ th[1].html_text.length > 0 /\ ~Fails(th[1].html_text)) =>
        LET m == th[1].result.mappings
        IN  /\ th[1].result.status = "converted"
            /\ Len(m) <= Cardinality(TagChildren(th[1].html_text))
            /\ \A p \in 1..Len(m) :
                  /\ ChildOf(1, m[p]) \in TagChildren(th[1].html_text)
                  /\ m[p].html_tag = th[1].html_text.children[ChildOf(1, m[p])].name
            /\ \A p, q \in 1..Len(m) :
                  p < q => ChildOf(1, m[p]) < ChildOf(1, m[q])

\* A text child whose text is in the rendering, next to a Tag with a record.
C7_Witness ==
    /\ Converted(1)
    /\ Len(th[1].html_text.children) = 2
    /\ th[1].html_text.children[1] = NavigableString
    /\ th[1].html_text.raw = <<"b", NL, "a">>
    /\ Len(th[1].result.mappings) = 1

\* C9: the cursor starts at 0; an element with a non-empty trimmed rendering
\* gets a record iff its lines occur, compared trimmed, at some index
\* i >= cursor of the rendering; the record is for the smallest such i, with
\* start i + 1 and end i + n within 1..line count, and the cursor becomes
\* i + n - 1; any other element leaves the list and the cursor unchanged.
OccursAt(markdown_lines, content_lines, i) ==
    \A j \in 0..(Len(content_lines) - 1) :
        /\ i + j < Len(markdown_lines)
        /\ strip(markdown_lines[i + j + 1]) = strip(content_lines[j + 1])

C9_Iteration(t) ==
    LET element == th[t].soup[th[t].k]
        content_lines == split(strip(element.md))
        n == Len(content_lines)
        places == {i \in th[t].current_line..(Len(th[t].markdown_lines) - 1) :
                      OccursAt(th[t].markdown_lines, content_lines, i)}
        old == mappings[engine_of(t)]
        new == mappings'[engine_of(t)]
    IN  IF element.kind = "Tag" /\ strip(element.md) # <<>> /\ places # {}
        THEN LET i == CHOOSE i \in places : \A i2 \in places : i <= i2
             IN  /\ Len(new) = Len(old) + 1
                 /\ SubSeq(new, 1, Len(old)) = old
                 /\ new[Len(new)].html_element_id = element.id
                 /\ new[Len(new)].markdown_line_start = i + 1
                 /\ new[Len(new)].markdown_line_end = i + n
                 /\ 1 <= i + 1 /\ i + 1 <= i + n
                 /\ i + n <= Len(th[t].markdown_lines)
                 /\ th'[t].current_line = i + n - 1
        ELSE /\ new = old
             /\ th'[t].current_line = th[t].current_line

C9_SearchFromCursor ==
    [][/\ (th[1].pc = "mapping" /\ th'[1].pc = "loop") => th'[1].current_line = 0
       /\ (th[1].pc = "loop" /\ th'[1].pc = "loop") => C9_Iteration(1)]_vars

\* An element found below the first line, on a line that matches only when
\* trimmed, followed by an element that is dropped.
C9_Witness ==
    /\ th[1].pc = "loop"
    /\ th[1].k = 3
    /\ Len(mappings[1]) = 1
    /\ mappings[1][1].html_element_id = th[1].soup[1].id
    /\ mappings[1][1].markdown_line_start >= 2
    /\ th[1].current_line = mappings[1][1].markdown_line_end - 1
    /\ th[1].markdown_lines[mappings[1][1].markdown_line_start]
          # mappings[1][1].markdown_content
    /\ strip(th[1].soup[2].md) # <<>>

(***************************************************************************)
(* Properties of two concurrent conversions (SpecShared).                  *)
(***************************************************************************)
\* What call t returns when nothing else runs.
Alone(t) == convert_with_mapping(<<>>, th[t].html_text, th[t].seed).result

\* C10: with one engine per call every call returns what it returns when
\* run alone, whatever the interleaving; on a shared engine some
\* interleaving makes a converted call return another list (C10_Witness).
C10_OwnEngineIsolated ==
    ~shared => \A t \in Threads : th[t].pc = "done" => th[t].result = Alone(t)

\* On the shared engine, a converted call returned a list that is not its
\* own: a record is missing, or a record comes from the other input.
C10_Witness ==
    /\ shared
    /\ th[1].html_text # th[2].html_text
    /\ \E t \in Threads :
          /\ Converted(t)
          /\ Alone(t).status = "converted"
          /\ th[t].result.mappings # Alone(t).mappings
          /\ \/ Len(th[t].result.mappings) < Len(Alone(t).mappings)
             \/ \E p \in 1..Len(th[t].result.mappings) :
                   ChildOf(t, th[t].result.mappings[p]) = 0

====
